---- MODULE Spec2Model ----
(***************************************************************************)
(* Lead follow-up automation: the run of process_leads (src/app.py, the    *)
(* Flask variant) and of the top-level script (src/main.py) over the       *)
(* spreadsheet, the mail service and the wall clock.                       *)
(*                                                                         *)
(* Text cells that the code inspects character by character (status,       *)
(* email) are sequences of one-character strings, so that str.lower and    *)
(* str.strip are computed.  A "Last Contact Date" cell is the text kind    *)
(* the sheet holds: blank, unparsable text, the text "NaT", or a text that *)
(* denotes a datetime (day number, time of day; 0 is midnight).            *)
(***************************************************************************)
EXTENDS Integers, Sequences, FiniteSets, TLC

VARIABLES
    sheet,      \* the worksheet: [header |-> column names, rows |-> rows]
    clock,      \* the wall clock: [day, tod]
    pc,         \* position of the run: idle, welcome, follow, write, summary, done, crashed
    values,     \* the table as loaded at run start (sheet.get_all_values())
    df,         \* the DataFrame of the run: [header, rows]
    today,      \* datetime.today() as read by the run
    todo,       \* row indices the current loop still has to visit
    outbox,     \* send requests of this run: [row, kind, ok]
    wrote,      \* whether this run has written the table back
    summary,    \* the daily summary of this run: [made, total, pending, contacted, ok]
    welcomed,   \* rows that were delivered a welcome email in some run
    rewelcomed, \* rows that were delivered a welcome email more than once
    lost,       \* rows welcomed in a run whose sheet update then raised
    committed   \* [row, day]: follow-ups delivered and written back

vars == <<sheet, clock, pc, values, df, today, todo, outbox, wrote, summary,
          welcomed, rewelcomed, lost, committed>>

(***************************************************************************)
(* Bounds and input sets                                                   *)
(***************************************************************************)
MaxRows == 2

Names == <<"Ann", "Bob", "Cy", "Dee">>

ColName   == "Lead Name"
ColEmail  == "Email"
ColStatus == "Lead Status"
ColDate   == "Last Contact Date"
ColNotes  == "Notes"
ColDays   == "Days Since Last Contact"

NewLeadText      == <<"N", "e", "w", " ", "L", "e", "a", "d">>
PaddedLowerNew   == <<" ", "n", "e", "w", " ", "l", "e", "a", "d">>
FollowUpText     == <<"F", "o", "l", "l", "o", "w", "-", "u", "p">>
ClosedText       == <<"C", "l", "o", "s", "e", "d">>
LowerNewLead     == <<"n", "e", "w", " ", "l", "e", "a", "d">>
LowerFollowUp    == <<"f", "o", "l", "l", "o", "w", "-", "u", "p">>

Statuses == {NewLeadText, PaddedLowerNew, FollowUpText, ClosedText}
Emails   == {<<"a", "@", "x">>, <<" ">>}

BlankCell      == [kind |-> "blank", day |-> 0, tod |-> 0]
NaTCell        == [kind |-> "nat", day |-> 0, tod |-> 0]
DateCell(d, t) == [kind |-> "dt", day |-> d, tod |-> t]

ClockReadings == {[day |-> 10, tod |-> 1], [day |-> 10, tod |-> 2],
                  [day |-> 13, tod |-> 1]}
FirstReading  == [day |-> 10, tod |-> 1]
InitDates     == {BlankCell, DateCell(7, 0), DateCell(11, 0)}

(***************************************************************************)
(* Text helpers: str.lower, str.strip                                      *)
(***************************************************************************)
LowerChar(c) ==
    CASE c = "N" -> "n"
      [] c = "L" -> "l"
      [] c = "F" -> "f"
      [] c = "C" -> "c"
      [] OTHER -> c

Lower(s) == [i \in 1..Len(s) |-> LowerChar(s[i])]

Strip(s) ==
    LET keep == {i \in 1..Len(s) : s[i] # " "}
    IN  IF keep = {} THEN <<>>
        ELSE LET lo == CHOOSE i \in keep : \A j \in keep : i <= j
                 hi == CHOOSE i \in keep : \A j \in keep : j <= i
             IN  SubSeq(s, lo, hi)

(***************************************************************************)
(* Dates: pd.to_datetime(errors="coerce"), astype(str), timedelta days     *)
(***************************************************************************)
NaT == [nat |-> TRUE, day |-> 0, tod |-> 0]

ToDatetime(cell) ==
    IF cell.kind = "dt" THEN [nat |-> FALSE, day |-> cell.day, tod |-> cell.tod]
    ELSE NaT

AsStr(v) == IF v.nat THEN NaTCell ELSE DateCell(v.day, v.tod)

NeverContacted == 999
FollowUpAfter  == 2

DaysSince(now, v) ==
    IF v.nat THEN NeverContacted
    ELSE (now.day - v.day) - (IF now.tod < v.tod THEN 1 ELSE 0)

Stamp(now) == [nat |-> FALSE, day |-> now.day, tod |-> now.tod]

(***************************************************************************)
(* Initial state                                                           *)
(***************************************************************************)
InitHeader == <<ColName, ColEmail, ColStatus, ColDate, ColNotes>>

InitRow(i, c) ==
    (ColName :> Names[i]) @@ (ColEmail :> c.email) @@ (ColStatus :> c.status)
    @@ (ColDate :> c.lcd) @@ (ColNotes :> "")

LeadCells == [status : Statuses, email : Emails, lcd : InitDates]

InitTables ==
    UNION {{[i \in 1..n |-> InitRow(i, f[i])] : f \in [1..n -> LeadCells]}
           : n \in 0..MaxRows}

NoSummary == [made |-> FALSE, total |-> 0, pending |-> 0, contacted |-> 0,
              ok |-> FALSE]

\* No run is active: the locals of process_leads hold nothing.
Locals ==
    /\ values = [header |-> <<>>, rows |-> <<>>]
    /\ df = [header |-> <<>>, rows |-> <<>>]
    /\ today = FirstReading
    /\ todo = <<>>
    /\ outbox = {}
    /\ wrote = FALSE
    /\ summary = NoSummary

\* The locals of process_leads go out of scope.
ClearLocals ==
    /\ values' = [header |-> <<>>, rows |-> <<>>]
    /\ df' = [header |-> <<>>, rows |-> <<>>]
    /\ today' = FirstReading
    /\ todo' = <<>>
    /\ outbox' = {}
    /\ wrote' = FALSE
    /\ summary' = NoSummary

Init ==
    /\ sheet \in {[header |-> InitHeader, rows |-> t] : t \in InitTables}
    /\ clock = FirstReading
    /\ pc = "idle"
    /\ Locals
    /\ welcomed = {}
    /\ rewelcomed = {}
    /\ lost = {}
    /\ committed = {}

(***************************************************************************)
(* Row predicates and field updates of process_leads                       *)
(***************************************************************************)
DfHeader(header) ==
    IF \E k \in 1..Len(header) : header[k] = ColDays THEN header
    ELSE Append(header, ColDays)

LoadRow(r, now) ==
    LET v == ToDatetime(r[ColDate])
    IN  [c \in (DOMAIN r) \cup {ColDays} |->
            CASE c = ColDate -> v
              [] c = ColDays -> DaysSince(now, v)
              [] OTHER -> r[c]]

LoadFrame(sh, now) ==
    [header |-> DfHeader(sh.header),
     rows |-> [i \in 1..Len(sh.rows) |-> LoadRow(sh.rows[i], now)]]

IsNewLead(r) ==
    /\ Strip(Lower(r[ColStatus])) = LowerNewLead
    /\ (r[ColDate].nat \/ AsStr(r[ColDate]).kind = "blank")

InFollowUpList(r) ==
    /\ r[ColStatus] \in {NewLeadText, FollowUpText}
    /\ r[ColDays] > FollowUpAfter

\* The rows a boolean mask selects, in table order, as iterrows visits them.
NewLeads(rows) ==
    SelectSeq([i \in 1..Len(rows) |-> i], LAMBDA i : IsNewLead(rows[i]))

FollowUpList(rows) ==
    SelectSeq([i \in 1..Len(rows) |-> i], LAMBDA i : InFollowUpList(rows[i]))

WelcomeHasEmail(r) == Strip(r[ColEmail]) # <<>>

\* Mutant of FollowUpHasEmail: only pd.notna(email), which every text passes.
FollowUpEmailNotNaOnly(r) == TRUE

FollowUpHasEmail(r) == Strip(r[ColEmail]) # <<>>

\* Mutant of WelcomeMutate: the notes are set but the contact date is not.
WelcomeMutateNotesOnly(r, now) ==
    [r EXCEPT ![ColNotes] = "Welcome email sent"]

WelcomeMutate(r, now) ==
    [r EXCEPT ![ColDate] = Stamp(now), ![ColNotes] = "Welcome email sent"]

\* Mutant of FollowUpMutate: status and notes are set, the date is not.
FollowUpMutateKeepsDate(r, now) ==
    [r EXCEPT ![ColStatus] = FollowUpText, ![ColNotes] = "Auto-email sent"]

FollowUpMutate(r, now) ==
    [r EXCEPT ![ColDate] = Stamp(now), ![ColStatus] = FollowUpText,
              ![ColNotes] = "Auto-email sent"]

\* send_email of app.py catches every exception of the transport and logs it.
SendEmailRaises(ok) == FALSE

\* send_email of main.py has no handler: a transport error propagates.
MainSendEmailRaises(ok) == ~ok

AsStrRow(r) == [r EXCEPT ![ColDate] = AsStr(r[ColDate])]

AsStrFrame(f) ==
    [header |-> f.header, rows |-> [i \in 1..Len(f.rows) |-> AsStrRow(f.rows[i])]]

Delivered(kind) == {e.row : e \in {x \in outbox : x.kind = kind /\ x.ok}}

(***************************************************************************)
(* Daily summary (send_daily_summary)                                      *)
(***************************************************************************)
SummaryParse(f) ==
    [header |-> f.header,
     rows |-> [i \in 1..Len(f.rows) |->
                 [f.rows[i] EXCEPT ![ColDate] = ToDatetime(f.rows[i][ColDate])]]]

PendingCount(rows) ==
    Cardinality({i \in 1..Len(rows) :
                    rows[i][ColStatus] \in {NewLeadText, FollowUpText}})

ContactedToday(rows, now) ==
    Cardinality({i \in 1..Len(rows) :
                    ~rows[i][ColDate].nat /\ rows[i][ColDate].day = now.day})

MakeSummary(rows, now, ok) ==
    [made |-> TRUE, total |-> Len(rows), pending |-> PendingCount(rows),
     contacted |-> ContactedToday(rows, now), ok |-> ok]

(***************************************************************************)
(* The wall clock                                                          *)
(***************************************************************************)
Later(c) ==
    {r \in ClockReadings : r.day > c.day \/ (r.day = c.day /\ r.tod > c.tod)}

\* Time passes between runs, and between the run's datetime.today() and the
\* summary's datetime.now().
Tick ==
    /\ pc \in {"idle", "crashed", "summary"}
    /\ clock' \in Later(clock)
    /\ UNCHANGED <<sheet, pc, values, df, today, todo, outbox, wrote, summary,
                   welcomed, rewelcomed, lost, committed>>

(***************************************************************************)
(* app.py: run_automation / process_leads                                  *)
(***************************************************************************)
\* Lines 109-133: load the sheet, parse the dates, compute the days column
\* once, select the new leads.
Load ==
    /\ pc = "idle"
    /\ values' = sheet
    /\ today' = clock
    /\ df' = LoadFrame(sheet, clock)
    /\ todo' = NewLeads(df'.rows)
    /\ outbox' = {}
    /\ wrote' = FALSE
    /\ summary' = NoSummary
    /\ pc' = "welcome"
    /\ UNCHANGED <<sheet, clock, welcomed, rewelcomed, lost, committed>>

\* Lines 135-146: one iteration of the welcome loop.
WelcomeStep ==
    /\ pc = "welcome"
    /\ todo # <<>>
    /\ LET i == Head(todo)
           lead == df.rows[i]
       IN  IF WelcomeHasEmail(lead)
           THEN \E ok \in BOOLEAN :
                  /\ outbox' = outbox \cup {[row |-> i, kind |-> "welcome", ok |-> ok]}
                  /\ df' = IF SendEmailRaises(ok) THEN df
                           ELSE [df EXCEPT !.rows[i] = WelcomeMutate(@, today)]
                  /\ welcomed' = IF ok THEN welcomed \cup {i} ELSE welcomed
                  /\ rewelcomed' = IF ok /\ i \in welcomed
                                   THEN rewelcomed \cup {i} ELSE rewelcomed
           ELSE UNCHANGED <<outbox, df, welcomed, rewelcomed>>
    /\ todo' = Tail(todo)
    /\ UNCHANGED <<sheet, clock, pc, values, today, wrote, summary,
                   lost, committed>>

\* Lines 149-152: the follow-up list is filtered from the frame as the
\* welcome loop left it; the days column is not recomputed.
WelcomeDone ==
    /\ pc = "welcome"
    /\ todo = <<>>
    /\ todo' = FollowUpList(df.rows)
    /\ pc' = "follow"
    /\ UNCHANGED <<sheet, clock, values, df, today, outbox, wrote, summary,
                   welcomed, rewelcomed, lost, committed>>

\* Lines 154-175: one iteration of the follow-up loop.
FollowStep ==
    /\ pc = "follow"
    /\ todo # <<>>
    /\ LET i == Head(todo)
           lead == df.rows[i]
       IN  IF FollowUpHasEmail(lead)
           THEN \E ok \in BOOLEAN :
                  /\ outbox' = outbox \cup {[row |-> i, kind |-> "followup", ok |-> ok]}
                  /\ df' = IF SendEmailRaises(ok) THEN df
                           ELSE [df EXCEPT !.rows[i] = FollowUpMutate(@, today)]
           ELSE UNCHANGED <<outbox, df>>
    /\ todo' = Tail(todo)
    /\ UNCHANGED <<sheet, clock, pc, values, today, wrote, summary,
                   welcomed, rewelcomed, lost, committed>>

FollowDone ==
    /\ pc = "follow"
    /\ todo = <<>>
    /\ pc' = "write"
    /\ UNCHANGED <<sheet, clock, values, df, today, todo, outbox, wrote,
                   summary, welcomed, rewelcomed, lost, committed>>

\* Lines 177-178: the whole frame, every column of it, is written as text.
Update ==
    /\ pc = "write"
    /\ df' = AsStrFrame(df)
    /\ sheet' = df'
    /\ wrote' = TRUE
    /\ committed' = committed \cup
                    {[row |-> i, day |-> today.day] : i \in Delivered("followup")}
    /\ pc' = "summary"
    /\ UNCHANGED <<clock, values, today, todo, outbox, summary,
                   welcomed, rewelcomed, lost>>

\* Line 178 raises (the table store is unavailable): nothing is written and
\* run_automation answers 500.
UpdateFail ==
    /\ pc = "write"
    /\ lost' = lost \cup Delivered("welcome")
    /\ ClearLocals
    /\ pc' = "idle"
    /\ UNCHANGED <<sheet, clock, welcomed, rewelcomed, committed>>

\* Line 179 and send_daily_summary (85-104); then the run answers 200.
Summary ==
    /\ pc = "summary"
    /\ df' = SummaryParse(df)
    /\ \E ok \in BOOLEAN :
         summary' = MakeSummary(df'.rows, clock, ok /\ ~SendEmailRaises(ok))
    /\ pc' = "done"
    /\ UNCHANGED <<sheet, clock, values, today, todo, outbox, wrote,
                   welcomed, rewelcomed, lost, committed>>

\* Line 180 and run_automation 189: process_leads returns, its locals are
\* gone, the endpoint answers 200.
Return ==
    /\ pc = "done"
    /\ ClearLocals
    /\ pc' = "idle"
    /\ UNCHANGED <<sheet, clock, welcomed, rewelcomed, lost, committed>>

Next ==
    \/ Tick
    \/ Load
    \/ WelcomeStep
    \/ WelcomeDone
    \/ FollowStep
    \/ FollowDone
    \/ Update
    \/ UpdateFail
    \/ Summary
    \/ Return

Spec == Init /\ [][Next]_vars

(***************************************************************************)
(* main.py: the top-level script                                           *)
(***************************************************************************)
\* Lines 90-108: load, parse, days column, follow-up list.  There is no
\* welcome step in this variant.
MainLoad ==
    /\ pc \in {"idle", "crashed"}
    /\ values' = sheet
    /\ today' = clock
    /\ df' = LoadFrame(sheet, clock)
    /\ todo' = FollowUpList(df'.rows)
    /\ outbox' = {}
    /\ wrote' = FALSE
    /\ summary' = NoSummary
    /\ pc' = "follow"
    /\ UNCHANGED <<sheet, clock, welcomed, rewelcomed, lost, committed>>

\* Lines 110-131: one iteration; an exception of send_email ends the script.
MainFollowStep ==
    /\ pc = "follow"
    /\ todo # <<>>
    /\ LET i == Head(todo)
           lead == df.rows[i]
       IN  IF FollowUpHasEmail(lead)
           THEN \E ok \in BOOLEAN :
                  /\ outbox' = outbox \cup {[row |-> i, kind |-> "followup", ok |-> ok]}
                  /\ IF MainSendEmailRaises(ok)
                     THEN /\ pc' = "crashed"
                          /\ UNCHANGED <<df, todo>>
                     ELSE /\ df' = [df EXCEPT !.rows[i] = FollowUpMutate(@, today)]
                          /\ todo' = Tail(todo)
                          /\ pc' = pc
           ELSE /\ todo' = Tail(todo)
                /\ UNCHANGED <<outbox, df, pc>>
    /\ UNCHANGED <<sheet, clock, values, today, wrote, summary, welcomed,
                   rewelcomed, lost, committed>>

MainFollowDone ==
    /\ pc = "follow"
    /\ todo = <<>>
    /\ pc' = "write"
    /\ UNCHANGED <<sheet, clock, values, df, today, todo, outbox, wrote,
                   summary, welcomed, rewelcomed, lost, committed>>

\* Lines 134-135.
MainUpdate ==
    /\ pc = "write"
    /\ df' = AsStrFrame(df)
    /\ sheet' = df'
    /\ wrote' = TRUE
    /\ committed' = committed \cup
                    {[row |-> i, day |-> today.day] : i \in Delivered("followup")}
    /\ pc' = "summary"
    /\ UNCHANGED <<clock, values, today, todo, outbox, summary, welcomed,
                   rewelcomed, lost>>

\* Line 136 and send_daily_summary (62-85): the summary's send can raise too.
MainSummary ==
    /\ pc = "summary"
    /\ df' = SummaryParse(df)
    /\ \E ok \in BOOLEAN :
         /\ summary' = MakeSummary(df'.rows, clock, ok)
         /\ pc' = IF MainSendEmailRaises(ok) THEN "crashed" ELSE "done"
    /\ UNCHANGED <<sheet, clock, values, today, todo, outbox, wrote, welcomed,
                   rewelcomed, lost, committed>>

\* Line 140: the script ends.
MainExit ==
    /\ pc = "done"
    /\ ClearLocals
    /\ pc' = "idle"
    /\ UNCHANGED <<sheet, clock, welcomed, rewelcomed, lost, committed>>

NextMain ==
    \/ Tick
    \/ MainLoad
    \/ MainFollowStep
    \/ MainFollowDone
    \/ MainUpdate
    \/ MainSummary
    \/ MainExit

SpecMain == Init /\ [][NextMain]_vars

(***************************************************************************)
(* Vocabulary of the properties                                            *)
(***************************************************************************)
Rows == 1..Len(values.rows)

Sent(i, kind) == \E e \in outbox : e.row = i /\ e.kind = kind

Emailed(i) == \E e \in outbox : e.row = i

SendFailed(i) == \E e \in outbox : e.row = i /\ ~e.ok

RunActive == pc \in {"welcome", "follow", "write", "summary", "done"}

Classified == pc \in {"write", "summary", "done"}

Normalized(status) == Strip(Lower(status))

BlankEmail(r) == Strip(r[ColEmail]) = <<>>

\* The datetime a cell denotes, whether the frame holds it as text or parsed.
DateValue(x) == IF "kind" \in DOMAIN x THEN ToDatetime(x) ELSE x

LoadedDate(i) == ToDatetime(values.rows[i][ColDate])

\* C1: within one run no record is sent both the welcome and the follow-up
\* email.
C1_AtMostOneEmailPerRun ==
    RunActive => \A i \in Rows : ~(Sent(i, "welcome") /\ Sent(i, "followup"))

\* C2: a record whose send failed is written back with the status, last
\* contact date and notes it was loaded with.
C2_FailedSendMutatesNothing ==
    (RunActive /\ wrote) =>
        \A i \in Rows :
            SendFailed(i) =>
                /\ sheet.rows[i][ColStatus] = values.rows[i][ColStatus]
                /\ ToDatetime(sheet.rows[i][ColDate]) = LoadedDate(i)
                /\ sheet.rows[i][ColNotes] = values.rows[i][ColNotes]

\* C3: a run in which a send failed still visits every later record of the
\* follow-up list, writes the table back and makes the daily summary.
C3_SendFailureDoesNotAbort ==
    (pc \in {"crashed", "done"} /\ \E i \in Rows : SendFailed(i)) =>
        /\ todo = <<>>
        /\ wrote
        /\ summary.made

\* C4: a record that was delivered the welcome email is written back with
\* last contact = today, notes = "Welcome email sent" and its loaded status.
C4_WelcomeWriteBack ==
    (RunActive /\ wrote) =>
        \A i \in Delivered("welcome") :
            /\ ToDatetime(sheet.rows[i][ColDate]) = Stamp(today)
            /\ sheet.rows[i][ColNotes] = "Welcome email sent"
            /\ sheet.rows[i][ColStatus] = values.rows[i][ColStatus]

\* C5: a record whose lowercased, trimmed status is "new lead" or
\* "follow-up", contacted more than 2 days ago, with a non-blank email, is
\* sent the follow-up; a record with 2 days or less is not.
C5_FollowUpUsesNormalizedStatus ==
    Classified =>
        \A i \in Rows :
            LET r == values.rows[i]
                days == DaysSince(today, LoadedDate(i))
            IN  /\ ( /\ Normalized(r[ColStatus]) \in {LowerNewLead, LowerFollowUp}
                     /\ ~LoadedDate(i).nat
                     /\ days > FollowUpAfter
                     /\ ~BlankEmail(r) ) => Sent(i, "followup")
                /\ days <= FollowUpAfter => ~Sent(i, "followup")

\* C6: the daily summary equals the reference counts over the written
\* table: all records, records with normalized status "new lead" or
\* "follow-up", records last contacted on the summary's date; and every
\* lead emailed with success in the run is among the contacted.
C6_SummaryReferenceCounts ==
    (pc = "done" /\ summary.made) =>
        /\ summary.total = Len(sheet.rows)
        /\ summary.pending =
             Cardinality({i \in 1..Len(sheet.rows) :
                 Normalized(sheet.rows[i][ColStatus]) \in {LowerNewLead, LowerFollowUp}})
        /\ summary.contacted =
             Cardinality({i \in 1..Len(sheet.rows) :
                 LET v == ToDatetime(sheet.rows[i][ColDate])
                 IN  ~v.nat /\ v.day = clock.day})
        /\ summary.contacted >=
             Cardinality(Delivered("welcome") \cup Delivered("followup"))

\* C7: the written table has the loaded columns and rows in order; name and
\* email are unchanged; a record that was not emailed is written as loaded.
C7_WriteBackFrame ==
    (RunActive /\ wrote) =>
        /\ sheet.header = values.header
        /\ Len(sheet.rows) = Len(values.rows)
        /\ \A i \in Rows :
             /\ DOMAIN sheet.rows[i] = DOMAIN values.rows[i]
             /\ sheet.rows[i][ColName] = values.rows[i][ColName]
             /\ sheet.rows[i][ColEmail] = values.rows[i][ColEmail]
             /\ ~Emailed(i) =>
                  /\ sheet.rows[i][ColStatus] = values.rows[i][ColStatus]
                  /\ sheet.rows[i][ColDate] = values.rows[i][ColDate]
                  /\ sheet.rows[i][ColNotes] = values.rows[i][ColNotes]

\* C8: a record whose follow-up was delivered and written back on some date
\* is loaded by any later run on that date with status "Follow-up" and 0
\* days since contact, and is sent no email by that run.
C8_NoEmailOnSameDateRerun ==
    (pc \in {"welcome", "follow", "write"}) =>
        \A i \in Rows :
            [row |-> i, day |-> today.day] \in committed =>
                /\ values.rows[i][ColStatus] = FollowUpText
                /\ df.rows[i][ColDays] = 0
                /\ ~Emailed(i)

\* C8 witness: a later run on the date of a committed follow-up has finished
\* both loops and sent that record nothing.
C8_Witness ==
    /\ pc = "write"
    /\ \E i \in Rows :
         /\ [row |-> i, day |-> today.day] \in committed
         /\ ~Emailed(i)
         /\ values.rows[i][ColNotes] = "Auto-email sent"

====
